---- MODULE Spec2Model ----
(***************************************************************************)
(* Model of the TMDb wrapper's pagination re-windowing layer.              *)
(*                                                                         *)
(* Two generations of the paginator live in the repository:               *)
(*   "Endpoint"  - Endpoint._requestResults (structures/Endpoint.js)       *)
(*   "Resource"  - Resource.getEndpoint -> _getResults with                *)
(*                 _mutateOptions / _mutateResults                         *)
(* A client is built from one generation and one wrapperOptions object.    *)
(* The backing API is a data set of `total` records served in remote pages *)
(* of 20; a record is identified by its global rank (field id).            *)
(***************************************************************************)
EXTENDS Integers, Sequences, FiniteSets, TLC

VARIABLES
    generation,          \* which paginator the client's resources are built from
    results_per_page,    \* this._wrapperOptions.results_per_page
    total,               \* total_results of the backing data set
    calls,               \* the paginated fetches: one record per caller slot
    wrapperArg,          \* the wrapperOptions argument the client was constructed with
    always_use_results,  \* this._wrapperOptions.always_use_results
    custom_id,           \* this._wrapperOptions.custom_id
    attempt,             \* the outcome of one more `new V3(...)` of the program
    lists,               \* the list fetches (type 3 endpoints): one record per slot
    lookups,             \* the V3.getMovieFromMethod operations: one record per slot
    updates              \* the direct, named-endpoint and rating operations, per slot

\* the wrapper options the constructor fixed
config == <<wrapperArg, always_use_results, custom_id>>

\* the variables the paginated fetches leave alone, besides the configuration
rest == <<config, attempt, lists, lookups, updates>>

vars == <<generation, results_per_page, total, calls, rest>>

----------------------------------------------------------------------------
(* Bounds of the model *)

\* virtual pages 1..MaxPage are requested besides the pages around the limits
MaxPage == 4

\* caller slots; SeqCalls are the slots a sequential caller uses
Calls == {1, 2}
SeqCalls == {1}

Generations == {"Endpoint", "Resource"}

\* configured page sizes: divisors of 20, a non-divisor and a multiple; for each of
\* them 20 / results_per_page is an exact binary fraction, so the JavaScript
\* double arithmetic agrees with the integer arithmetic below
RppSet == {5, 10, 20, 8, 40}

\* sizes of the backing data set (10000 = 500 full remote pages)
Totals == {0, 10, 25, 40, 10000}

Queries == {"alien", "dune"}

----------------------------------------------------------------------------
(* Program constants *)

\* Endpoint._requestResults: const apiResultsPerPage = 20
apiResultsPerPage == 20

\* Endpoint._requestResults: const apiPageLimit = 1000
apiPageLimit == 1000

\* Resource constructor: this._api = { page_limit: 500, results_per_page: 20 }
api == [page_limit |-> 500, results_per_page |-> 20]

\* the remote page limit and remote page size the specification names
remotePageLimit == 500
remotePageSize == 20

----------------------------------------------------------------------------
(* Arithmetic of the JavaScript expressions, on integers.                  *)
(* offsetCount = 20 / results_per_page is a fraction num/den; every use of *)
(* it below is multiplied out so that only integers are computed.          *)

\* mutant of MathCeil: Math.floor(num / den)
MathFloor(num, den) == num \div den

\* Math.ceil(num / den) for den > 0
MathCeil(num, den) == -((-num) \div den)

\* JavaScript a % b for b > 0: the result has the sign of the dividend
JsRem(a, b) == IF a >= 0 THEN a % b ELSE -((-a) % b)

Min(a, b) == IF a < b THEN a ELSE b
Max(a, b) == IF a > b THEN a ELSE b

\* { ...options, page: requestPage }
WithPage(options, requestPage) ==
    [k \in (DOMAIN options) \cup {"page"} |->
        IF k = "page" THEN requestPage ELSE options[k]]

\* options.page || 1   (an absent page and page 0 are both falsy)
InputPage(options) ==
    IF "page" \in DOMAIN options /\ options.page # 0 THEN options.page ELSE 1

\* mutant of RequestPage: Math.floor(inputPage / offsetCount) + 1
RequestPageFloorPlusOne(inputPage, remoteSize, rpp) ==
    ((inputPage * rpp) \div remoteSize) + 1

\* Math.ceil(inputPage / offsetCount), offsetCount = remoteSize / rpp
RequestPage(inputPage, remoteSize, rpp) == MathCeil(inputPage * rpp, remoteSize)

\* ((inputPage - 1) % offsetCount) * rpp
OffsetPosition(inputPage, remoteSize, rpp) == JsRem((inputPage - 1) * rpp, remoteSize)

\* mutant of Splice: slice(start, count), whose second argument is an end position
SliceToCount(seq, start, count) ==
    SubSeq(seq, start + 1, Min(Len(seq), count))

\* Array.prototype.splice(start, count) for 0 <= start: the removed elements
Splice(seq, start, count) ==
    SubSeq(seq, start + 1, Min(Len(seq), start + count))

\* { ...a, ...b }
Spread(a, b) ==
    [k \in (DOMAIN a) \cup (DOMAIN b) |-> IF k \in DOMAIN b THEN b[k] ELSE a[k]]

----------------------------------------------------------------------------
(* The backing API and the HTTP client *)

\* V3 constructor: this.apiOptions = { api_key: null, ..., ...apiOptions }
apiOptions == [api_key |-> "key"]

\* the ways the axios call can fail: with error.response, with only
\* error.request, with neither
AxiosErrors == {"response", "request", "setup"}

\* number of records of remote page k of the data set
PageLen(k) ==
    IF k < 1 THEN 0 ELSE Max(0, Min(remotePageSize, total - (k - 1) * remotePageSize))

\* the decoded body of a successful GET of remote page k
RemotePage(k) ==
    [page          |-> k,
     total_pages   |-> MathCeil(total, remotePageSize),
     total_results |-> total,
     results       |-> [i \in 1..PageLen(k) |-> [id |-> (k - 1) * remotePageSize + i]]]

\* the axios request _request builds (Endpoint and Resource build the same one)
AxiosRequest(method, params) ==
    [method |-> method, params |-> Spread(apiOptions, params)]

\* mutant of EndpointRequestError: error.request is tested before error.response
\* (axios sets error.request on an error that has a response too)
EndpointRequestErrorRequestFirst(kind) ==
    CASE kind \in {"response", "request"} ->
             [name |-> "Error",
              message |-> "Request was made but no response was received.",
              data |-> "undefined"]
      [] OTHER -> [name |-> "Error",
                   message |-> "Unknown error when sending request.",
                   data |-> "undefined"]

\* Endpoint._request: what the catch block rejects with
EndpointRequestError(kind) ==
    CASE kind = "response" -> [name |-> "response", message |-> "", data |-> "payload"]
      [] kind = "request"  -> [name |-> "Error",
                               message |-> "Request was made but no response was received.",
                               data |-> "undefined"]
      [] OTHER             -> [name |-> "Error",
                               message |-> "Unknown error when sending request.",
                               data |-> "undefined"]

\* Resource._request: what the catch block rejects with
ResourceRequestError(kind) ==
    CASE kind = "response" -> [name |-> "ResponseError", message |-> "API error.",
                               data |-> "payload"]
      [] kind = "request"  -> [name |-> "ResponseError",
                               message |-> "Request made but no response received.",
                               data |-> "undefined"]
      [] OTHER             -> [name |-> "ResponseError",
                               message |-> "Unknown error when sending request.",
                               data |-> "undefined"]

----------------------------------------------------------------------------
(* Outcomes of a call *)

Pending == [state |-> "pending"]
Resolved(value) == [state |-> "resolved", value |-> value]
Rejected(error) == [state |-> "rejected", error |-> error]

Err(name, message) == [name |-> name, message |-> message, data |-> "undefined"]

\* Endpoint: Error(`Page must be less than or equal to ${wrapperPageLimit}`)
EndpointPageError == Err("Error", "Page must be less than or equal to wrapperPageLimit")
\* Resource: new ResponseError('Page limit exceeded.')
ResourcePageError == Err("ResponseError", "Page limit exceeded.")
\* Error('No results.')
NoResultsError == Err("Error", "No results.")

\* for (i = 0; i < results.length; i += 1)
\*     results[i].index = (requestPage - 1) * apiResultsPerPage + i + 1
AssignIndex(results, requestPage, remoteSize) ==
    [i \in 1..Len(results) |->
        [id |-> results[i].id, index |-> (requestPage - 1) * remoteSize + (i - 1) + 1]]

Idle == [pc |-> "idle"]
Awaiting(options, request) ==
    [pc |-> "await", options |-> options, requests |-> <<request>>, outcome |-> Pending]
\* mutant of Done: the page of the caller's options object is rewritten to the page
\* that was requested
DoneRewritesPage(call, outcome) ==
    Spread(call, [pc |-> "done", outcome |-> outcome,
                  options |-> WithPage(call.options, call.requests[1].params.page)])

\* mutant of Done: the outcome is computed but the call is left suspended
DoneStaysSuspended(call, outcome) == Spread(call, [outcome |-> outcome])

Done(call, outcome) == Spread(call, [pc |-> "done", outcome |-> outcome])

\* the call of slot c is suspended at `await this._request(...)`; `during` keeps the
\* other paginated fetches that were suspended at that moment
Suspended(c, call) ==
    Spread(call, [during |-> {d \in Calls \ {c} : calls[d].pc = "await"}])

\* a call settled after its request failed: `axios` is the way the axios call failed
\* and `transport` the error _request rejected with
Failed(call, kind, error, outcome) ==
    Spread(Done(call, outcome), [axios |-> kind, transport |-> error])

\* catch (error) { return Promise.reject(error); }
Rethrow(error) == error

----------------------------------------------------------------------------
(* Endpoint._requestResults *)

\* inputPage < 1 || inputPage > wrapperPageLimit,
\* wrapperPageLimit = apiPageLimit * (apiResultsPerPage / results_per_page)
EndpointPageInvalid(inputPage) ==
    \/ inputPage < 1
    \/ inputPage * results_per_page > apiPageLimit * apiResultsPerPage

\* the synchronous part, up to the await of this._request
RequestResults(c, params) ==
    /\ generation = "Endpoint"
    /\ calls[c].pc = "idle"
    /\ LET inputPage == InputPage(params)
           requestPage == RequestPage(inputPage, apiResultsPerPage, results_per_page)
           requestParams == WithPage(params, requestPage)
       IN  calls' = [calls EXCEPT ![c] =
             IF EndpointPageInvalid(inputPage)
             THEN [pc |-> "done", options |-> params, requests |-> <<>>,
                   outcome |-> Rejected(EndpointPageError)]
             ELSE Suspended(c, Awaiting(params, AxiosRequest("GET", requestParams)))]
    /\ UNCHANGED <<generation, results_per_page, total, rest>>

\* mutant of EndpointResult: the returned page is the remote page that was fetched
EndpointResultRemotePage(params, response) ==
    LET inputPage == InputPage(params)
        requestPage == RequestPage(inputPage, apiResultsPerPage, results_per_page)
        offsetPosition == OffsetPosition(inputPage, apiResultsPerPage, results_per_page)
        indexed == AssignIndex(response.results, requestPage, apiResultsPerPage)
    IN  IF Len(response.results) = 0 \/ offsetPosition > Len(response.results)
        THEN Rejected(NoResultsError)
        ELSE Resolved(
               [page          |-> requestPage,
                total_pages   |-> MathCeil(response.total_results, results_per_page),
                total_results |-> response.total_results,
                results       |-> Splice(indexed, offsetPosition, results_per_page)])

\* the value the code after the await produces from the response
EndpointResult(params, response) ==
    LET inputPage == InputPage(params)
        requestPage == RequestPage(inputPage, apiResultsPerPage, results_per_page)
        offsetPosition == OffsetPosition(inputPage, apiResultsPerPage, results_per_page)
        indexed == AssignIndex(response.results, requestPage, apiResultsPerPage)
    IN  IF Len(response.results) = 0 \/ offsetPosition > Len(response.results)
        THEN Rejected(NoResultsError)
        ELSE Resolved(
               [page          |-> inputPage,
                total_pages   |-> MathCeil(response.total_results, results_per_page),
                total_results |-> response.total_results,
                results       |-> Splice(indexed, offsetPosition, results_per_page)])

\* mutant of RequestResultsResume: the page of the call is kept on the client, where
\* another call suspended at its request overwrites it
RequestResultsResumeShared(c) ==
    /\ generation = "Endpoint"
    /\ calls[c].pc = "await"
    /\ LET request == calls[c].requests[Len(calls[c].requests)]
           response == RemotePage(request.params.page)
           later == {d \in Calls \ {c} : calls[d].pc = "await"}
           params == IF later = {} THEN calls[c].options
                     ELSE calls[CHOOSE d \in later : TRUE].options
       IN  calls' = [calls EXCEPT ![c] = Done(calls[c], EndpointResult(params, response))]
    /\ UNCHANGED <<generation, results_per_page, total, rest>>

\* the request succeeds and the rest of _requestResults runs
RequestResultsResume(c) ==
    /\ generation = "Endpoint"
    /\ calls[c].pc = "await"
    /\ LET request == calls[c].requests[Len(calls[c].requests)]
           response == RemotePage(request.params.page)
       IN  calls' = [calls EXCEPT ![c] =
                        Done(calls[c], EndpointResult(calls[c].options, response))]
    /\ UNCHANGED <<generation, results_per_page, total, rest>>

\* mutant of RequestResultsFail: the catch block sends the request again
RequestResultsFailRetry(c, kind) ==
    /\ generation = "Endpoint"
    /\ calls[c].pc = "await"
    /\ calls' = [calls EXCEPT ![c].requests = Append(@, @[Len(@)])]
    /\ UNCHANGED <<generation, results_per_page, total, rest>>

\* the request fails: _request's catch rejects, _requestResults' catch rejects again
RequestResultsFail(c, kind) ==
    /\ generation = "Endpoint"
    /\ calls[c].pc = "await"
    /\ calls' = [calls EXCEPT ![c] =
                    Failed(calls[c], kind, EndpointRequestError(kind),
                           Rejected(Rethrow(EndpointRequestError(kind))))]
    /\ UNCHANGED <<generation, results_per_page, total, rest>>

----------------------------------------------------------------------------
(* Resource.getEndpoint -> Resource._getResults (endpoint.type === 2) *)

\* Resource._mutateOptions
MutateOptions(options) ==
    WithPage(options,
             RequestPage(InputPage(options), api.results_per_page, results_per_page))

\* inputPage < 1 || inputPage > pageLimit, pageLimit = this._api.pageLimit * offsetCount.
\* The constructor sets _api.page_limit, so _api.pageLimit is undefined, pageLimit is
\* NaN and inputPage > NaN is false.
ResourcePageInvalid(inputPage) ==
    \/ inputPage < 1
    \/ /\ "pageLimit" \in DOMAIN api
       /\ inputPage * results_per_page > api.pageLimit * api.results_per_page

\* Resource._mutateResults(data, options)
MutateResults(data, options) ==
    LET inputPage == InputPage(options)
        requestPage == RequestPage(inputPage, api.results_per_page, results_per_page)
        offsetPosition == OffsetPosition(inputPage, api.results_per_page, results_per_page)
        indexed == AssignIndex(data.results, requestPage, api.results_per_page)
        results == Splice(indexed, offsetPosition, results_per_page)
    IN  IF api.results_per_page = results_per_page     \* offsetCount === 1
        THEN Resolved(data)
        ELSE IF ResourcePageInvalid(inputPage)
        THEN Rejected(ResourcePageError)
        ELSE IF Len(results) = 0
        THEN Rejected(NoResultsError)
        ELSE Resolved(
               [results       |-> results,
                page          |-> inputPage,
                total_pages   |-> MathCeil(data.total_results, results_per_page),
                total_results |-> data.total_results])

\* getEndpoint dispatches to _getResults, which runs up to the await of this._request
GetResults(c, options) ==
    /\ generation = "Resource"
    /\ calls[c].pc = "idle"
    /\ calls' = [calls EXCEPT ![c] =
                    Suspended(c, Awaiting(options,
                                          AxiosRequest("GET", MutateOptions(options))))]
    /\ UNCHANGED <<generation, results_per_page, total, rest>>

\* the request succeeds and _getResults returns this._mutateResults(data, options)
GetResultsResume(c) ==
    /\ generation = "Resource"
    /\ calls[c].pc = "await"
    /\ LET request == calls[c].requests[Len(calls[c].requests)]
           data == RemotePage(request.params.page)
       IN  calls' = [calls EXCEPT ![c] =
                        Done(calls[c], MutateResults(data, calls[c].options))]
    /\ UNCHANGED <<generation, results_per_page, total, rest>>

\* the request fails: _request's catch rejects, _getResults' catch rejects again
GetResultsFail(c, kind) ==
    /\ generation = "Resource"
    /\ calls[c].pc = "await"
    /\ calls' = [calls EXCEPT ![c] =
                    Failed(calls[c], kind, ResourceRequestError(kind),
                           Rejected(Rethrow(ResourceRequestError(kind))))]
    /\ UNCHANGED <<generation, results_per_page, total, rest>>

----------------------------------------------------------------------------
(* The caller *)

\* the virtual page limit the specification states, for the configured page size
VirtualPageLimit == (remotePageLimit * remotePageSize) \div results_per_page

\* the limit Endpoint._requestResults computes
WrapperPageLimit == (apiPageLimit * apiResultsPerPage) \div results_per_page

\* the pages a caller asks for: below 1, the first pages, and around both limits
Pages ==
    {-1, 0} \cup (1..MaxPage)
      \cup {VirtualPageLimit, VirtualPageLimit + 1, WrapperPageLimit, WrapperPageLimit + 1}

\* the options objects a caller passes: with or without a page
OptionsSet ==
    [query : Queries] \cup [page : Pages, query : Queries]

----------------------------------------------------------------------------
(* V3.constructor *)

\* this.apiOptions = { api_key: null, session_id: null, ... } before ...apiOptions
DefaultApiOptions ==
    [api_key |-> "null", session_id |-> "null", guest_session_id |-> "null",
     include_image_language |-> "null", language |-> "null", region |-> "null"]

\* mutant of DefaultWrapperOptions: the default page size is 10
DefaultWrapperOptionsTen ==
    [results_per_page |-> 10, always_use_results |-> FALSE, custom_id |-> FALSE]

\* this.wrapperOptions = { results_per_page: 20, always_use_results: false,
\*                         custom_id: false } before ...wrapperOptions
DefaultWrapperOptions ==
    [results_per_page |-> 20, always_use_results |-> FALSE, custom_id |-> FALSE]

\* the apiOptions argument is undefined
Undefined == [undefined |-> TRUE]

\* the apiOptions arguments of a construction: none, without a key, with an empty
\* key, with a key
ApiArgs ==
    {Undefined, [language |-> "en"], [api_key |-> "", language |-> "en"],
     [api_key |-> "key", language |-> "en"]}

\* the wrapperOptions arguments of a construction; each names custom_id, and names
\* results_per_page and always_use_results or leaves them out
WrapperArgs ==
    [custom_id : BOOLEAN]
      \cup [custom_id : BOOLEAN, results_per_page : RppSet]
      \cup [custom_id : BOOLEAN, always_use_results : {TRUE}]
      \cup [custom_id : BOOLEAN, results_per_page : RppSet, always_use_results : {TRUE}]

\* !apiOptions.api_key
NoApiKey(apiArg) == "api_key" \notin DOMAIN apiArg \/ apiArg.api_key \in {"", "null"}

\* the resource objects lines 62-67 create, in order
V3Resources == <<"find", "search", "movie", "tv", "person">>

SeqToSet(seq) == {seq[i] : i \in 1..Len(seq)}

NoAttempt == [state |-> "none"]

\* mutant of V3Constructor: the key is checked after the resources are created
V3ConstructorCheckLast(apiArg, wrapArg) ==
    IF apiArg = Undefined
    THEN [state |-> "thrown", arg |-> apiArg, error |-> Err("TypeError", "undefined"),
          resources |-> {}]
    ELSE IF NoApiKey(apiArg)
    THEN [state |-> "thrown", arg |-> apiArg, error |-> Err("Error", "API key required."),
          resources |-> SeqToSet(V3Resources)]
    ELSE [state |-> "constructed", arg |-> apiArg,
          resources |-> SeqToSet(V3Resources),
          apiOptions |-> Spread(DefaultApiOptions, apiArg),
          wrapperOptions |-> Spread(DefaultWrapperOptions, wrapArg)]

\* new V3(apiOptions, wrapperOptions): reading apiOptions.api_key of undefined throws
\* a TypeError, a missing key throws Error('API key required.'), both before any
\* resource is created
V3Constructor(apiArg, wrapArg) ==
    IF apiArg = Undefined
    THEN [state |-> "thrown", arg |-> apiArg, error |-> Err("TypeError", "undefined"),
          resources |-> {}]
    ELSE IF NoApiKey(apiArg)
    THEN [state |-> "thrown", arg |-> apiArg, error |-> Err("Error", "API key required."),
          resources |-> {}]
    ELSE [state |-> "constructed", arg |-> apiArg,
          resources |-> SeqToSet(V3Resources),
          apiOptions |-> Spread(DefaultApiOptions, apiArg),
          wrapperOptions |-> Spread(DefaultWrapperOptions, wrapArg)]

\* the program constructs one more client
NewV3(apiArg, wrapArg) ==
    /\ attempt = NoAttempt
    /\ attempt' = V3Constructor(apiArg, wrapArg)
    /\ UNCHANGED <<generation, results_per_page, total, calls, config, lists, lookups, updates>>

\* the program has caught the exception or dropped the extra client
DropV3 ==
    /\ attempt # NoAttempt
    /\ attempt' = NoAttempt
    /\ UNCHANGED <<generation, results_per_page, total, calls, config, lists, lookups, updates>>

----------------------------------------------------------------------------
(* Resource.getEndpoint on a type 3 endpoint (person movie_credits) *)

\* lengths of the cast and crew lists the backing API answers with
ListLens == {0, 3, 12}

ListRecords(n) == [i \in 1..n |-> [id |-> i]]

\* the decoded body of a successful GET /person/{id}/movie_credits
CreditsData ==
    {[id |-> 1, cast |-> ListRecords(a), crew |-> ListRecords(b)] : a, b \in ListLens}

\* the options of a list fetch: with or without a page, or naming an api_key
ListOptions ==
    [language : {"en"}] \cup [language : {"en"}, page : {-1, 0} \cup (1..MaxPage)]
      \cup [language : {"en"}, api_key : {"other"}]

\* Array.prototype.slice(start, end) for 0 <= start
Slice(seq, start, end) == SubSeq(seq, start + 1, Min(Len(seq), end))

\* for (i = 0; i < list.length; i += 1) list[i].index = i + 1
IndexList(list) == [i \in 1..Len(list) |-> [id |-> list[i].id, index |-> i]]

\* new ResponseError('Invalid page number.')
InvalidPageNumberError == Err("ResponseError", "Invalid page number.")

\* Resource._mutateList(list, options): a plain object, or a rejected promise
MutateList(list, options) ==
    LET inputPage == InputPage(options)
        totalPages == MathCeil(Len(list), results_per_page)
        offsetPosition == (inputPage - 1) * results_per_page
    IN  IF Len(list) = 0
        THEN Rejected(NoResultsError)
        ELSE IF inputPage < 1 \/ inputPage > totalPages
        THEN Rejected(InvalidPageNumberError)
        ELSE [results       |-> Slice(IndexList(list), offsetPosition, results_per_page),
              page          |-> inputPage,
              total_pages   |-> totalPages,
              total_results |-> Len(list)]

\* endpoints.media.movie_credits.mutate:
\* ({ ...data, cast: mutate(data.cast, options), crew: mutate(data.crew, options) })
MovieCreditsMutate(data, options) ==
    [id   |-> data.id,
     cast |-> MutateList(data.cast, options),
     crew |-> MutateList(data.crew, options)]

\* Error(error): a new Error whose message is String(error), "Error: " + message
\* for a ResponseError (which keeps Error's name); the data is not carried over
WrapInError(error) == Err("Error", "Error: " \o error.message)

\* getEndpoint: a type 3 endpoint goes to _getList when always_use_results is set,
\* to _request otherwise; both send the same request
GetList(c, options) ==
    /\ generation = "Resource"
    /\ lists[c].pc = "idle"
    /\ lists' = [lists EXCEPT ![c] =
           [pc |-> "await",
            via |-> IF always_use_results THEN "_getList" ELSE "_request",
            options |-> options,
            requests |-> <<AxiosRequest("GET", options)>>,
            outcome |-> Pending]]
    /\ UNCHANGED <<generation, results_per_page, total, calls, config, attempt, lookups, updates>>

\* mutant of GetListResume: the list fetch leaves the remote page size in the wrapper
\* options of the client
GetListResumeSetsPageSize(c, data) ==
    /\ lists[c].pc = "await"
    /\ lists' = [lists EXCEPT ![c] =
           [pc |-> "done", via |-> @.via, options |-> @.options,
            requests |-> @.requests, response |-> data,
            outcome |-> IF @.via = "_getList"
                        THEN Resolved(MovieCreditsMutate(data, @.options))
                        ELSE Resolved(data)]]
    /\ results_per_page' = remotePageSize
    /\ UNCHANGED <<generation, total, calls, config, attempt, lookups, updates>>

\* the request succeeds with `data`: _getList returns endpoint.mutate(...), _request
\* returns the response
GetListResume(c, data) ==
    /\ lists[c].pc = "await"
    /\ lists' = [lists EXCEPT ![c] =
           [pc |-> "done", via |-> @.via, options |-> @.options,
            requests |-> @.requests, response |-> data,
            outcome |-> IF @.via = "_getList"
                        THEN Resolved(MovieCreditsMutate(data, @.options))
                        ELSE Resolved(data)]]
    /\ UNCHANGED <<generation, results_per_page, total, calls, config, attempt, lookups, updates>>

\* the request fails: _request's catch rejects, and _getList's catch rejects with
\* Error(error)
GetListFail(c, kind) ==
    /\ lists[c].pc = "await"
    /\ lists' = [lists EXCEPT ![c] =
           [pc |-> "done", via |-> @.via, options |-> @.options,
            requests |-> @.requests,
            axios |-> kind, transport |-> ResourceRequestError(kind),
            outcome |-> IF @.via = "_getList"
                        THEN Rejected(WrapInError(ResourceRequestError(kind)))
                        ELSE Rejected(ResourceRequestError(kind))]]
    /\ UNCHANGED <<generation, results_per_page, total, calls, config, attempt, lookups, updates>>

\* the caller has taken the outcome of its list fetch
ReturnList(c) ==
    /\ lists[c].pc = "done"
    /\ lists' = [lists EXCEPT ![c] = Idle]
    /\ UNCHANGED <<generation, results_per_page, total, calls, config, attempt, lookups, updates>>

----------------------------------------------------------------------------
(* V3.getMovieFromMethod: _getIdFromMethod, Find._getIdFromExternalSource,
   Search._getIdFromQuery *)

\* a string is a sequence of characters
Digit(ch) == ch \in {"0", "1", "2", "3", "4", "5", "6", "7", "8", "9"}

AllDigits(str, from) == \A i \in from..Len(str) : Digit(str[i])

\* this._customId = /^t(\d+)$/
MatchesCustomId(str) == Len(str) >= 2 /\ str[1] = "t" /\ AllDigits(str, 2)

\* this._externalSources.movie_results = { imdb_id: /^tt\d+$/ }
MatchesImdbId(str) ==
    Len(str) >= 3 /\ str[1] = "t" /\ str[2] = "t" /\ AllDigits(str, 3)

\* Find._getExternalSource(externalId, 'movie_results'): a source name or undefined
GetExternalSource(externalId) ==
    IF MatchesImdbId(externalId) THEN [name |-> "imdb_id"] ELSE Undefined

\* the external ids the callers pass: an IMDb id, a custom id, neither
ExternalIds == {<<"t", "t", "1">>, <<"t", "4", "2">>, <<"x">>}

\* the `method` argument: any of id, externalId, query, or none of them
Methods ==
    [id : {7}] \cup [externalId : ExternalIds] \cup [query : Queries]
      \cup [externalId : ExternalIds, query : Queries]
      \cup [id : {7}, externalId : ExternalIds, query : Queries]
      \cup [other : {TRUE}]

Has(method, key) == key \in DOMAIN method

\* response.movie_results of GET /find/{externalId}
FindResults == {<<>>, <<[id |-> 11]>>}

\* V3.getMovie(id): new Movie(version, apiOptions, wrapperOptions, id)
Movie(id) == [resource |-> "Movie", id |-> id]

InvalidExternalIdError == Err("ResponseError", "Invalid external ID.")
NoResultsResponseError == Err("ResponseError", "No results.")
MethodRequiredError == Err("ResponseError", "Method required.")

\* a getMovieFromMethod operation: where it is, the requests it has sent, how many it
\* had sent when a request of it first failed (0: none failed) and how that one failed
Lookup(pc, method, requests, failedAt, axios, outcome) ==
    [pc |-> pc, method |-> method, requests |-> requests,
     failedAt |-> failedAt, axios |-> axios, outcome |-> outcome]

\* findByExternalId(externalId, { external_source }): getEndpoint('external_id', ...)
FindRequest(externalId, source) ==
    [method |-> "GET",
     path   |-> externalId,
     params |-> Spread(apiOptions, [external_source |-> source.name])]

\* Search._getIdFromQuery: getMovies({ ...options, query }) is getEndpoint('movie', ...),
\* a type 2 endpoint, so _getResults sends the request for _mutateOptions(options)
SearchRequest(method) == AxiosRequest("GET", MutateOptions([query |-> method.query]))

\* _getIdFromMethod from `if (method.query)` on: the search, or 'Method required.'
FromQuery(l) ==
    IF Has(l.method, "query")
    THEN Lookup("search", l.method, Append(l.requests, SearchRequest(l.method)),
                l.failedAt, l.axios, Pending)
    ELSE Lookup("done", l.method, l.requests, l.failedAt, l.axios,
                Rejected(MethodRequiredError))

\* _getIdFromMethod's catch (error) { if (!method.query) return error; }: the error
\* becomes the id getMovieFromMethod builds the Movie with, or the search goes on
CatchFind(l, error) ==
    IF ~Has(l.method, "query")
    THEN Lookup("done", l.method, l.requests, l.failedAt, l.axios, Resolved(Movie(error)))
    ELSE FromQuery(l)

\* getMovieFromMethod(method) up to its first request
StartLookup(method) ==
    LET l == Lookup("start", method, <<>>, 0, "none", Pending)
    IN  IF Has(method, "id")
        THEN Lookup("done", method, <<>>, 0, "none", Resolved(Movie(method.id)))
        ELSE IF ~Has(method, "externalId")
        THEN FromQuery(l)
        ELSE IF custom_id /\ MatchesCustomId(method.externalId)
        THEN Lookup("done", method, <<>>, 0, "none",
                    Resolved(Movie(Tail(method.externalId))))
        ELSE IF GetExternalSource(method.externalId) = Undefined
        THEN CatchFind(l, InvalidExternalIdError)
        ELSE Lookup("find", method,
                    <<FindRequest(method.externalId,
                                  GetExternalSource(method.externalId))>>,
                    0, "none", Pending)

GetMovieFromMethod(c, method) ==
    /\ generation = "Resource"
    /\ lookups[c].pc = "idle"
    /\ lookups' = [lookups EXCEPT ![c] = StartLookup(method)]
    /\ UNCHANGED <<generation, results_per_page, total, calls, config, attempt, lists,
                   updates>>

\* the find request succeeds: results[0].id, or 'No results.' into the catch
FindResume(c, results) ==
    /\ lookups[c].pc = "find"
    /\ lookups' = [lookups EXCEPT ![c] =
           IF Len(results) = 0
           THEN CatchFind(@, NoResultsResponseError)
           ELSE Lookup("done", @.method, @.requests, @.failedAt, @.axios,
                       Resolved(Movie(results[1].id)))]
    /\ UNCHANGED <<generation, results_per_page, total, calls, config, attempt, lists,
                   updates>>

\* the request failed: keep the first failure of the operation
NoteFailure(l, kind) ==
    IF l.failedAt = 0
    THEN Lookup(l.pc, l.method, l.requests, Len(l.requests), kind, l.outcome)
    ELSE l

\* the find request fails: _request rejects, _getIdFromExternalSource rejects again,
\* _getIdFromMethod catches
FindFail(c, kind) ==
    /\ lookups[c].pc = "find"
    /\ lookups' = [lookups EXCEPT ![c] =
           CatchFind(NoteFailure(@, kind), ResourceRequestError(kind))]
    /\ UNCHANGED <<generation, results_per_page, total, calls, config, attempt, lists,
                   updates>>

\* _getIdFromQuery after `await resource(...)`: the paginated fetch's outcome, then
\* total_results === 0 rejects and results[0].id is the id
IdFromQuery(response) ==
    IF response.state = "rejected"
    THEN response
    ELSE IF response.value.total_results = 0
    THEN Rejected(NoResultsResponseError)
    ELSE Resolved(Movie(response.value.results[1].id))

\* the search request succeeds
SearchResume(c) ==
    /\ lookups[c].pc = "search"
    /\ LET l == lookups[c]
           request == l.requests[Len(l.requests)]
           response == MutateResults(RemotePage(request.params.page),
                                     [query |-> l.method.query])
       IN  lookups' = [lookups EXCEPT ![c] =
               Lookup("done", l.method, l.requests, l.failedAt, l.axios,
                      IdFromQuery(response))]
    /\ UNCHANGED <<generation, results_per_page, total, calls, config, attempt, lists,
                   updates>>

\* the search request fails: every catch on the way rejects with the same error
SearchFail(c, kind) ==
    /\ lookups[c].pc = "search"
    /\ lookups' = [lookups EXCEPT ![c] =
           Lookup("done", @.method, @.requests,
                  NoteFailure(@, kind).failedAt, NoteFailure(@, kind).axios,
                  Rejected(Rethrow(ResourceRequestError(kind))))]
    /\ UNCHANGED <<generation, results_per_page, total, calls, config, attempt, lists,
                   updates>>

\* the caller has taken the outcome of getMovieFromMethod
ReturnLookup(c) ==
    /\ lookups[c].pc = "done"
    /\ lookups' = [lookups EXCEPT ![c] = Idle]
    /\ UNCHANGED <<generation, results_per_page, total, calls, config, attempt, lists,
                   updates>>

----------------------------------------------------------------------------
(* _request, getEndpoint and updateEndpoint called with their own arguments, and the
   rating operations of the Movie and TV resources *)

\* JavaScript values that are passed where a string is expected: a string, an
\* object, or undefined
Str(s) == [string |-> s]
Obj(o) == [object |-> o]

\* !x is false
Truthy(x) == "undefined" \notin DOMAIN x /\ x # Str("")

\* the property key a value is converted to in this._endpoints[x]
PropertyKey(x) ==
    IF "string" \in DOMAIN x THEN x.string
    ELSE IF "object" \in DOMAIN x THEN "[object Object]"
    ELSE "undefined"

\* the endpoint table of the Movie and TV resources (type 0 endpoints)
MediaEndpoints == {"rating", "account_states"}

\* the resources with a rating endpoint, and the id of the movie or show
MediaResources == {"movie", "tv"}
MediaId == "7"

\* this._createPath(endpoint.path): basePath + '/{id}/' + name with the id filled in
CreatePath(resource, name) == "/" \o resource \o "/" \o MediaId \o "/" \o name

\* the options and the content of a rating call
RatingOptions == [session_id |-> "s"]
RatingContent == [value |-> 8]

\* an operation of this section: the call that was made, the requests sent, the outcome
Update(pc, op, requests, outcome) ==
    [pc |-> pc, op |-> op, requests |-> requests, outcome |-> outcome]

\* new ResponseError(message) in part_000, Error(message) in Endpoint.js
RequestArgumentError(message) ==
    IF generation = "Resource" THEN Err("ResponseError", message) ELSE Err("Error", message)

\* params: { ...this._apiOptions, ...options }; spreading undefined adds nothing
RequestParams(options) ==
    IF options = Undefined THEN apiOptions ELSE Spread(apiOptions, options)

\* mutant of RequestOp: the tests of method and path are left out
RequestOpUnchecked(op, method, path, options, content) ==
    Update("await", op,
           <<[method |-> PropertyKey(method), path |-> PropertyKey(path),
              params |-> RequestParams(options), content |-> content]>>,
           Pending)

\* _request(method, path, options, content) up to the await of axios
RequestOp(op, method, path, options, content) ==
    IF ~Truthy(method)
    THEN Update("done", op, <<>>, Rejected(RequestArgumentError("Method required.")))
    ELSE IF ~Truthy(path)
    THEN Update("done", op, <<>>, Rejected(RequestArgumentError("Path required.")))
    ELSE Update("await", op,
                <<[method |-> method.string, path |-> path.string,
                   params |-> RequestParams(options), content |-> content]>>,
                Pending)

\* Resource.getEndpoint(endpointName, options) for the endpoints of type 0
GetEndpointOp(op, resource, endpointName, options) ==
    IF PropertyKey(endpointName) \notin MediaEndpoints
    THEN Update("done", op, <<>>,
                Rejected(Err("ResponseError", "Invalid endpoint name.")))
    ELSE RequestOp(op, Str("GET"), Str(CreatePath(resource, PropertyKey(endpointName))),
                   options, Undefined)

\* Resource.updateEndpoint(method, endpointName, options, content); an undefined
\* options is spread as no options
UpdateEndpointOp(op, resource, method, endpointName, options, content) ==
    IF ~Truthy(method)
    THEN Update("done", op, <<>>, Rejected(Err("Error", "Method required.")))
    ELSE IF PropertyKey(endpointName) \notin MediaEndpoints
    THEN Update("done", op, <<>>, Rejected(Err("Error", "Invalid endpoint name.")))
    ELSE RequestOp(op, method, Str(CreatePath(resource, PropertyKey(endpointName))),
                   IF "object" \in DOMAIN options THEN options.object ELSE Undefined,
                   content)

\* the values callers pass as method, path and endpoint name
MethodArgs == {Str("POST"), Str(""), Undefined}
PathArgs == {Str(CreatePath("movie", "rating")), Str(""), Undefined}
EndpointNameArgs == {Str("rating"), Str("account_states"), Str("ratings"), Undefined}

\* resource._request(method, path)
Request(c, method, path) ==
    /\ updates[c].pc = "idle"
    /\ updates' = [updates EXCEPT ![c] =
           RequestOp([name |-> "_request", method |-> method, path |-> path],
                     method, path, RatingOptions, Obj(RatingContent))]
    /\ UNCHANGED <<generation, results_per_page, total, calls, config, attempt, lists,
                   lookups>>

\* resource.getEndpoint(endpointName, options)
GetEndpoint(c, endpointName) ==
    /\ generation = "Resource"
    /\ updates[c].pc = "idle"
    /\ updates' = [updates EXCEPT ![c] =
           GetEndpointOp([name |-> "getEndpoint", endpointName |-> endpointName],
                         "movie", endpointName, RatingOptions)]
    /\ UNCHANGED <<generation, results_per_page, total, calls, config, attempt, lists,
                   lookups>>

\* resource.updateEndpoint(method, endpointName, options, content)
UpdateEndpoint(c, method, endpointName) ==
    /\ generation = "Resource"
    /\ updates[c].pc = "idle"
    /\ updates' = [updates EXCEPT ![c] =
           UpdateEndpointOp([name |-> "updateEndpoint", method |-> method,
                             endpointName |-> endpointName],
                            "movie", method, endpointName, Obj(RatingOptions),
                            Obj(RatingContent))]
    /\ UNCHANGED <<generation, results_per_page, total, calls, config, attempt, lists,
                   lookups>>

\* the options a caller passes to a rating operation, or leaves out
RatingOptionArgs == {Obj(RatingOptions), Undefined}

\* Movie.addRating(options, content): this.updateEndpoint('POST', 'rating', options,
\* content); TV.addRating(content, options): this.updateEndpoint('rating', options,
\* content)
AddRating(c, resource, options) ==
    /\ generation = "Resource"
    /\ updates[c].pc = "idle"
    /\ LET op == [name |-> "addRating", resource |-> resource, options |-> options]
       IN  updates' = [updates EXCEPT ![c] =
               IF resource = "movie"
               THEN UpdateEndpointOp(op, resource, Str("POST"), Str("rating"), options,
                                     Obj(RatingContent))
               ELSE UpdateEndpointOp(op, resource, Str("rating"), options,
                                     Obj(RatingContent), Undefined)]
    /\ UNCHANGED <<generation, results_per_page, total, calls, config, attempt, lists,
                   lookups>>

\* new TypeError: this.deleteEndpoint is not a function (no class defines it)
DeleteEndpointError == Err("TypeError", "this.deleteEndpoint is not a function")

\* Movie.removeRating(options): this.updateEndpoint('DELETE', 'rating', options);
\* TV.removeRating(options): this.deleteEndpoint('rating', options), in an async
\* function
RemoveRating(c, resource, options) ==
    /\ generation = "Resource"
    /\ updates[c].pc = "idle"
    /\ LET op == [name |-> "removeRating", resource |-> resource, options |-> options]
       IN  updates' = [updates EXCEPT ![c] =
               IF resource = "movie"
               THEN UpdateEndpointOp(op, resource, Str("DELETE"), Str("rating"), options,
                                     Undefined)
               ELSE Update("done", op, <<>>, Rejected(DeleteEndpointError))]
    /\ UNCHANGED <<generation, results_per_page, total, calls, config, attempt, lists,
                   lookups>>

\* the request of the operation is answered: _request returns the decoded body
UpdateResume(c) ==
    /\ updates[c].pc = "await"
    /\ updates' = [updates EXCEPT ![c] =
           Update("done", @.op, @.requests, Resolved([status_code |-> 1]))]
    /\ UNCHANGED <<generation, results_per_page, total, calls, config, attempt, lists,
                   lookups>>

\* the request of the operation fails
UpdateFail(c, kind) ==
    /\ updates[c].pc = "await"
    /\ updates' = [updates EXCEPT ![c] =
           Update("done", @.op, @.requests,
                  Rejected(IF generation = "Resource"
                           THEN ResourceRequestError(kind)
                           ELSE EndpointRequestError(kind)))]
    /\ UNCHANGED <<generation, results_per_page, total, calls, config, attempt, lists,
                   lookups>>

\* the caller has taken the outcome
ReturnUpdate(c) ==
    /\ updates[c].pc = "done"
    /\ updates' = [updates EXCEPT ![c] = Idle]
    /\ UNCHANGED <<generation, results_per_page, total, calls, config, attempt, lists,
                   lookups>>

\* no operation of caller slot c is under way and no construction is being looked at
Free(c) ==
    /\ calls[c].pc = "idle"
    /\ lists[c].pc = "idle"
    /\ lookups[c].pc = "idle"
    /\ updates[c].pc = "idle"
    /\ attempt = NoAttempt

\* the caller has taken the outcome of its call; the slot is free again
Return(c) ==
    /\ calls[c].pc = "done"
    /\ calls' = [calls EXCEPT ![c] = Idle]
    /\ UNCHANGED <<generation, results_per_page, total, rest>>

\* the state after new V3({ api_key: 'key' }, wrapperArg)
Init ==
    /\ generation \in Generations
    /\ wrapperArg \in WrapperArgs
    /\ results_per_page = Spread(DefaultWrapperOptions, wrapperArg).results_per_page
    /\ always_use_results = Spread(DefaultWrapperOptions, wrapperArg).always_use_results
    /\ custom_id = Spread(DefaultWrapperOptions, wrapperArg).custom_id
    /\ total \in Totals
    /\ calls = [c \in Calls |-> Idle]
    /\ attempt = NoAttempt
    /\ lists = [c \in Calls |-> Idle]
    /\ lookups = [c \in Calls |-> Idle]
    /\ updates = [c \in Calls |-> Idle]

\* what caller slot c can do
Step(c) ==
    \/ Free(c) /\ \E params \in OptionsSet : RequestResults(c, params)
    \/ RequestResultsResume(c)
    \/ \E kind \in AxiosErrors : RequestResultsFail(c, kind)
    \/ Free(c) /\ \E options \in OptionsSet : GetResults(c, options)
    \/ GetResultsResume(c)
    \/ \E kind \in AxiosErrors : GetResultsFail(c, kind)
    \/ Return(c)
    \/ Free(c) /\ \E options \in ListOptions : GetList(c, options)
    \/ \E data \in CreditsData : GetListResume(c, data)
    \/ \E kind \in AxiosErrors : GetListFail(c, kind)
    \/ ReturnList(c)
    \/ Free(c) /\ \E method \in Methods : GetMovieFromMethod(c, method)
    \/ \E results \in FindResults : FindResume(c, results)
    \/ \E kind \in AxiosErrors : FindFail(c, kind)
    \/ SearchResume(c)
    \/ \E kind \in AxiosErrors : SearchFail(c, kind)
    \/ ReturnLookup(c)
    \/ Free(c) /\ \E method \in MethodArgs, path \in PathArgs : Request(c, method, path)
    \/ Free(c) /\ \E endpointName \in EndpointNameArgs : GetEndpoint(c, endpointName)
    \/ Free(c) /\ \E method \in MethodArgs, endpointName \in EndpointNameArgs :
                     UpdateEndpoint(c, method, endpointName)
    \/ Free(c) /\ \E resource \in MediaResources, options \in RatingOptionArgs :
                     AddRating(c, resource, options)
    \/ Free(c) /\ \E resource \in MediaResources, options \in RatingOptionArgs :
                     RemoveRating(c, resource, options)
    \/ UpdateResume(c)
    \/ \E kind \in AxiosErrors : UpdateFail(c, kind)
    \/ ReturnUpdate(c)

\* the program constructs a client and looks at the outcome
Construct ==
    \/ (\A c \in Calls : Free(c)) /\ \E a \in ApiArgs, w \in WrapperArgs : NewV3(a, w)
    \/ DropV3

Next ==
    \/ \E c \in SeqCalls : Step(c)
    \/ Construct

Spec == Init /\ [][Next]_vars

\* the Transport completes the request of the paginated fetch of slot c, with a
\* response or with a failure, and the rest of the call runs
Settle(c) ==
    \/ RequestResultsResume(c)
    \/ \E kind \in AxiosErrors : RequestResultsFail(c, kind)
    \/ GetResultsResume(c)
    \/ \E kind \in AxiosErrors : GetResultsFail(c, kind)

\* a caller that only runs paginated fetches, one after the other
Fetch(c) ==
    \/ Free(c) /\ \E params \in OptionsSet : RequestResults(c, params)
    \/ Free(c) /\ \E options \in OptionsSet : GetResults(c, options)
    \/ Settle(c)
    \/ Return(c)

NextLive == \E c \in SeqCalls : Fetch(c)

\* the runs in which the Transport eventually completes every request it was given
SpecLive == Init /\ [][NextLive]_vars /\ \A c \in SeqCalls : WF_vars(Settle(c))

\* the wrapper options of the client whose callers run concurrently
ConcWrapperArgs ==
    {[custom_id |-> FALSE]} \cup [custom_id : {FALSE}, results_per_page : {5, 10}]

\* the backing data of the concurrent runs
ConcTotals == {25}

InitConc ==
    /\ Init
    /\ wrapperArg \in ConcWrapperArgs
    /\ total \in ConcTotals

\* every caller slot runs its operations, interleaved with the others at the awaits
NextConc == \E c \in Calls : Step(c)

SpecConc == InitConc /\ [][NextConc]_vars

----------------------------------------------------------------------------
(* Vocabulary of the claims *)

Started(c) == calls[c].pc # "idle"
Finished(c) == calls[c].pc = "done"
IsResolved(c) == Finished(c) /\ calls[c].outcome.state = "resolved"
IsRejected(c) == Finished(c) /\ calls[c].outcome.state = "rejected"

\* the rejection is the invalid-page error of the client's generation
InvalidPageRejection(c) ==
    /\ IsRejected(c)
    /\ calls[c].outcome.error \in {EndpointPageError, ResourcePageError}

NoResultsRejection(c) ==
    IsRejected(c) /\ calls[c].outcome.error = NoResultsError

HasPage(c) == "page" \in DOMAIN calls[c].options

\* the virtual page of the call: options.page, page 1 when the caller gives none
VirtualPage(c) == IF HasPage(c) THEN calls[c].options.page ELSE 1

\* 1 <= virtualPage <= remotePageLimit * (remotePageSize / virtualPageSize)
InRange(v) ==
    v >= 1 /\ v * results_per_page <= remotePageLimit * remotePageSize

Divides == remotePageSize % results_per_page = 0

\* the remote page number the call's request asked for
RemotePageNumber(c) == calls[c].requests[1].params.page

\* 0-based position of the record with this id in the full remote page k
PositionInRemotePage(k, id) ==
    CHOOSE j \in 0..(remotePageSize - 1) :
        j < Len(RemotePage(k).results) /\ RemotePage(k).results[j + 1].id = id

\* offsetPosition = ((virtualPage - 1) mod offsetCount) * results_per_page
SpecOffsetPosition(v) == ((v - 1) * results_per_page) % remotePageSize

----------------------------------------------------------------------------
(* C1..C10 *)

\* C1: a paginated fetch whose requested virtual page is out of range ends in the
\* invalid-page rejection, and no Transport request is issued before it.
C1_OutOfRangeRejectedBeforeRequest ==
    \A c \in Calls :
        (Started(c) /\ ~InRange(VirtualPage(c))) =>
            /\ calls[c].requests = <<>>
            /\ Finished(c) => InvalidPageRejection(c)

\* C2: a paginated fetch whose page passes the validation has issued exactly one
\* Transport request when it completes, and never more than one at any time.
C2_ExactlyOneRequest ==
    \A c \in Calls :
        /\ Started(c) => Len(calls[c].requests) <= 1
        /\ (Finished(c) /\ ~InvalidPageRejection(c)) => Len(calls[c].requests) = 1

C2_Witness ==
    \E c \in Calls :
        /\ IsResolved(c)
        /\ Len(calls[c].requests) = 1
        /\ results_per_page = 10
        /\ VirtualPage(c) = 3

\* C3: the request of a paginated fetch for virtual page v >= 1 carries the caller's
\* other query parameters unchanged and page = ceil(v / offsetCount), that is the
\* least k with k * 20 >= v * results_per_page.
C3_RequestPageAndParams ==
    \A c \in Calls :
        (Started(c) /\ VirtualPage(c) >= 1) =>
            \A i \in 1..Len(calls[c].requests) :
                LET params == calls[c].requests[i].params
                    k == params.page
                    others == (DOMAIN calls[c].options) \ {"page"}
                IN  /\ k * remotePageSize >= VirtualPage(c) * results_per_page
                    /\ (k - 1) * remotePageSize < VirtualPage(c) * results_per_page
                    /\ (DOMAIN params) \ ({"page"} \cup DOMAIN apiOptions) = others
                    /\ \A name \in others : params[name] = calls[c].options[name]
                    /\ results_per_page = 10 => k = (VirtualPage(c) + 1) \div 2

C3_Witness ==
    \E c \in Calls :
        /\ calls[c].pc = "await"
        /\ results_per_page = 10
        /\ HasPage(c) /\ calls[c].options.page = 4
        /\ calls[c].options.query = "dune"
        /\ calls[c].requests[1].params.page = 2
        /\ calls[c].requests[1].params.query = "dune"

\* C4: the largest accepted virtual page is 500 * (20 / results_per_page): that page
\* is not rejected as out of range, and the page after it is.
C4_LargestAcceptedPage ==
    \A c \in Calls :
        (Finished(c) /\ HasPage(c)) =>
            /\ calls[c].options.page = VirtualPageLimit => ~InvalidPageRejection(c)
            /\ calls[c].options.page = VirtualPageLimit + 1 => InvalidPageRejection(c)

\* C5: a paginated fetch whose requested page is below 1 fails with the out-of-range
\* error.
C5_PageBelowOneRejected ==
    \A c \in Calls :
        (Finished(c) /\ HasPage(c) /\ calls[c].options.page < 1) =>
            InvalidPageRejection(c)

\* C6: every record of a resolved paginated fetch carries
\* index = (remotePageNumber - 1) * 20 + positionInRemotePage + 1.
C6_RecordIndex ==
    \A c \in Calls :
        IsResolved(c) =>
            \A i \in 1..Len(calls[c].outcome.value.results) :
                LET record == calls[c].outcome.value.results[i]
                    k == RemotePageNumber(c)
                IN  /\ "index" \in DOMAIN record
                    /\ record.index =
                         (k - 1) * remotePageSize + PositionInRemotePage(k, record.id) + 1

\* C7: the results of a resolved paginated fetch for virtual page v >= 1 are the
\* records of the fetched remote page at positions offsetPosition ..
\* offsetPosition + results_per_page - 1, cut at the end of the remote page, in order.
C7_ResultsAreTheSlice ==
    \A c \in Calls :
        (IsResolved(c) /\ VirtualPage(c) >= 1) =>
            LET results == calls[c].outcome.value.results
                remote == RemotePage(RemotePageNumber(c)).results
                off == SpecOffsetPosition(VirtualPage(c))
            IN  /\ Len(results) = Max(0, Min(results_per_page, Len(remote) - off))
                /\ \A i \in 1..Len(results) : results[i].id = remote[off + i].id

C7_Witness ==
    \E c \in Calls :
        /\ IsResolved(c)
        /\ results_per_page = 10 /\ total = 25
        /\ VirtualPage(c) = 2
        /\ Len(calls[c].outcome.value.results) = 10
        /\ calls[c].outcome.value.results[1].id = 11

\* C8: when results_per_page divides 20, the indices of virtual page v are consecutive
\* and start at (v - 1) * results_per_page + 1.
C8_IndexContinuity ==
    \A c \in Calls :
        (Divides /\ IsResolved(c) /\ VirtualPage(c) >= 1) =>
            \A i \in 1..Len(calls[c].outcome.value.results) :
                LET record == calls[c].outcome.value.results[i]
                IN  /\ "index" \in DOMAIN record
                    /\ record.index = (VirtualPage(c) - 1) * results_per_page + i

\* C9: when results_per_page divides 20, a resolved paginated fetch for a valid page
\* returns exactly results_per_page records, or fewer on the page total_pages.
C9_FullPageExceptLast ==
    \A c \in Calls :
        (Divides /\ IsResolved(c) /\ InRange(VirtualPage(c))) =>
            LET n == Len(calls[c].outcome.value.results)
                v == VirtualPage(c)
            IN  \/ n = results_per_page
                \/ /\ n < results_per_page
                   /\ v = calls[c].outcome.value.total_pages

\* C10: a paginated fetch never resolves with an empty results sequence, and the
\* 'No results.' rejection comes only after its one remote fetch.
C10_NeverResolvesEmpty ==
    \A c \in Calls :
        /\ IsResolved(c) => Len(calls[c].outcome.value.results) > 0
        /\ NoResultsRejection(c) => Len(calls[c].requests) = 1

----------------------------------------------------------------------------
(* C11..C20 *)

C12_EchoesPageAndTotal ==
    \A c \in Calls :
        (IsResolved(c) /\ VirtualPage(c) >= 1) =>
            /\ calls[c].outcome.value.page = VirtualPage(c)
            /\ calls[c].outcome.value.total_results =
                   RemotePage(RemotePageNumber(c)).total_results

C12_Witness ==
    \E c \in Calls :
        /\ IsResolved(c)
        /\ results_per_page = 5 /\ total = 40
        /\ HasPage(c) /\ calls[c].options.page = 4
        /\ RemotePageNumber(c) = 1
        /\ calls[c].outcome.value.page = 4
        /\ calls[c].outcome.value.total_results = 40

\* C17: a construction without an api_key throws, and no resource object (find,
\* search, movie, tv, person) has been created for it.
C17_NoKeyNoClient ==
    (attempt # NoAttempt /\ (attempt.arg = Undefined \/ NoApiKey(attempt.arg))) =>
        /\ attempt.state = "thrown"
        /\ attempt.resources = {}

C17_Witness ==
    /\ attempt # NoAttempt
    /\ attempt.arg = [language |-> "en"]
    /\ attempt.state = "thrown"
    /\ attempt.error.message = "API key required."

\* C18: a client constructed without results_per_page has page size 20, and its
\* paginated fetch of virtual page p >= 1 requests remote page p and returns all the
\* records of that remote page in order (offset 0).
C18_DefaultIsPassThrough ==
    "results_per_page" \notin DOMAIN wrapperArg =>
        /\ results_per_page = remotePageSize
        /\ \A c \in Calls :
            (Started(c) /\ VirtualPage(c) >= 1) =>
                /\ SpecOffsetPosition(VirtualPage(c)) = 0
                /\ \A i \in 1..Len(calls[c].requests) :
                       calls[c].requests[i].params.page = VirtualPage(c)
                /\ IsResolved(c) =>
                     LET results == calls[c].outcome.value.results
                         remote == RemotePage(VirtualPage(c)).results
                     IN  /\ Len(results) = Len(remote)
                         /\ \A i \in 1..Len(results) : results[i].id = remote[i].id

C18_Witness ==
    \E c \in Calls :
        /\ "results_per_page" \notin DOMAIN wrapperArg
        /\ IsResolved(c)
        /\ total = 25
        /\ HasPage(c) /\ calls[c].options.page = 2
        /\ RemotePageNumber(c) = 2
        /\ Len(calls[c].outcome.value.results) = 5
        /\ calls[c].outcome.value.results[1].id = 21

\* the paginated and list fetches whose request failed, with the error the Transport
\* (_request) produced and the outcome the caller received
FailedFetches ==
    {[transport |-> calls[c].transport, outcome |-> calls[c].outcome] :
        c \in {d \in Calls : Finished(d) /\ "transport" \in DOMAIN calls[d]}}
      \cup
    {[transport |-> lists[c].transport, outcome |-> lists[c].outcome] :
        c \in {d \in Calls : lists[d].pc = "done" /\ "transport" \in DOMAIN lists[d]}}

\* C13: when the request of a paginated or list fetch fails, the caller receives a
\* rejection whose error is exactly the error the Transport produced.
C13_TransportErrorUnchanged ==
    \A f \in FailedFetches : f.outcome = Rejected(f.transport)

\* the operations one of whose requests failed: the requests sent in all, the requests
\* sent when the failure happened, and the outcome (pending while under way)
FailedOperations ==
    {[requests |-> Len(calls[c].requests), failedAt |-> 1, outcome |-> calls[c].outcome] :
        c \in {d \in Calls : Finished(d) /\ "axios" \in DOMAIN calls[d]}}
      \cup
    {[requests |-> Len(lists[c].requests), failedAt |-> 1, outcome |-> lists[c].outcome] :
        c \in {d \in Calls : lists[d].pc = "done" /\ "axios" \in DOMAIN lists[d]}}
      \cup
    {[requests |-> Len(lookups[c].requests), failedAt |-> lookups[c].failedAt,
      outcome |-> lookups[c].outcome] :
        c \in {d \in Calls : lookups[d].pc # "idle" /\ lookups[d].failedAt > 0}}

\* C14: once a request of an operation has failed, the operation sends no further
\* request and its outcome is a rejection, never a resolved value; this includes
\* getMovieFromMethod when the external-id lookup fails.
C14_FailureEndsOperation ==
    \A f \in FailedOperations :
        /\ f.requests = f.failedAt
        /\ f.outcome.state = "rejected"

\* a value _mutateList or _mutateResults returned is a promise, not data
IsPromise(x) == "state" \in DOMAIN x

\* C15: whenever an operation resolves, no part of the returned value holds a
\* rejected or pending outcome.
C15_NoPartialSuccess ==
    \A c \in Calls :
        /\ IsResolved(c) => ~IsPromise(calls[c].outcome.value)
        /\ (lists[c].pc = "done" /\ lists[c].via = "_getList"
              /\ lists[c].outcome.state = "resolved") =>
               /\ ~IsPromise(lists[c].outcome.value.cast)
               /\ ~IsPromise(lists[c].outcome.value.crew)

\* the ways an HTTP call fails, for the three kinds of the claim
ServerErrors == {[name |-> "response", message |-> "", data |-> "payload"],
                 [name |-> "ResponseError", message |-> "API error.", data |-> "payload"]}
NoResponseErrors ==
    {Err("Error", "Request was made but no response was received."),
     Err("ResponseError", "Request made but no response received.")}
UnknownErrors ==
    {Err("Error", "Unknown error when sending request."),
     Err("ResponseError", "Unknown error when sending request.")}

\* the operations that have sent an HTTP request and settled: what axios did, and
\* what _request returned or rejected with
SettledRequests ==
    {[axios |-> calls[c].axios, error |-> calls[c].transport] :
        c \in {d \in Calls : Finished(d) /\ "axios" \in DOMAIN calls[d]}}
      \cup
    {[axios |-> lists[c].axios, error |-> lists[c].transport] :
        c \in {d \in Calls : lists[d].pc = "done" /\ "axios" \in DOMAIN lists[d]}}

\* C16: _request returns the decoded body when the HTTP call succeeds, and otherwise
\* rejects with a server error carrying the payload when a response was received,
\* a no-response error when only the request was made, an unknown error otherwise.
C16_RequestOutcomes ==
    /\ \A r \in SettledRequests :
          /\ r.axios = "response" => r.error \in ServerErrors
          /\ r.axios = "request" => r.error \in NoResponseErrors
          /\ r.axios \notin {"response", "request"} => r.error \in UnknownErrors
    /\ \A c \in Calls :
          (lists[c].pc = "done" /\ lists[c].via = "_request") =>
              IF "axios" \in DOMAIN lists[c]
              THEN lists[c].outcome = Rejected(lists[c].transport)
              ELSE lists[c].outcome = Resolved(lists[c].response)

C16_Witness ==
    \E c \in Calls :
        /\ Finished(c)
        /\ "axios" \in DOMAIN calls[c]
        /\ calls[c].axios = "response"
        /\ calls[c].outcome = Rejected([name |-> "response", message |-> "",
                                        data |-> "payload"])

\* the same thing happened to the requests of two finished calls: both succeeded, or
\* both failed in the same way
SameFate(c, d) ==
    IF "axios" \in DOMAIN calls[c]
    THEN "axios" \in DOMAIN calls[d] /\ calls[d].axios = calls[c].axios
    ELSE "axios" \notin DOMAIN calls[d]

\* C19: two paginated fetches with identical arguments against the same backing data
\* have identical outcomes (page, total_pages, total_results, results and indices, or
\* the error), whatever the callers did before and between them.
C19_IdenticalCallsIdenticalOutcomes ==
    \A c, d \in Calls :
        (Finished(c) /\ Finished(d) /\ calls[c].options = calls[d].options
           /\ SameFate(c, d)) =>
            calls[c].outcome = calls[d].outcome

C19_Witness ==
    /\ IsResolved(1) /\ IsResolved(2)
    /\ calls[1].options = calls[2].options
    /\ HasPage(1) /\ calls[1].options.page = 2
    /\ calls[1].outcome.value.page = 2
    /\ calls[2].during = {}

\* the outcome of a paginated fetch with these options whose request succeeds, when
\* it is the only call of the client
AloneOutcome(options) ==
    IF generation = "Endpoint"
    THEN IF EndpointPageInvalid(InputPage(options))
         THEN Rejected(EndpointPageError)
         ELSE EndpointResult(options,
                  RemotePage(RequestPage(InputPage(options), apiResultsPerPage,
                                         results_per_page)))
    ELSE MutateResults(RemotePage(MutateOptions(options).page), options)

\* C20: however paginated fetches in flight on one client interleave, each completes
\* with the outcome it has when it runs alone against the same remote data.
C20_InterleavingKeepsOutcomes ==
    \A c \in Calls :
        (Finished(c) /\ "axios" \notin DOMAIN calls[c]) =>
            calls[c].outcome = AloneOutcome(calls[c].options)

C20_Witness ==
    /\ IsResolved(1) /\ IsResolved(2)
    /\ calls[2].during = {1}
    /\ calls[1].options # calls[2].options
    /\ HasPage(1) /\ HasPage(2)
    /\ calls[1].outcome.value.page # calls[2].outcome.value.page

----------------------------------------------------------------------------
(* C21..C30 *)

\* the options object the caller passed to the operation of slot c under way
OptionsKept(c) ==
    /\ calls[c].pc = "await" => calls'[c].options = calls[c].options
    /\ lists[c].pc = "await" => lists'[c].options = lists[c].options
    /\ lookups[c].pc \in {"find", "search"} => lookups'[c].method = lookups[c].method

AllRequests ==
    UNION {SeqToSet(calls[c].requests) : c \in {d \in Calls : Started(d)}}
      \cup UNION {SeqToSet(lists[c].requests) :
                     c \in {d \in Calls : lists[d].pc # "idle"}}
      \cup UNION {SeqToSet(lookups[c].requests) :
                     c \in {d \in Calls : lookups[d].pc # "idle"}}

\* C22: every request carries the api_key given at construction in its parameters,
\* whatever options the caller passed.
C22_ApiKeyOnEveryRequest ==
    \A request \in AllRequests :
        /\ "api_key" \in DOMAIN request.params
        /\ request.params.api_key = apiOptions.api_key

\* results_per_page is a multiple of the remote page size and larger than it
LargerMultiple ==
    results_per_page > remotePageSize /\ results_per_page % remotePageSize = 0

\* C23: with results_per_page a larger multiple of the remote page size (40), a fetch
\* of virtual page 1 requests remote page 1 and its first record has index 1.
C23_LargerPageStartsAtOne ==
    \A c \in Calls :
        (LargerMultiple /\ Started(c) /\ HasPage(c) /\ calls[c].options.page = 1) =>
            /\ \A i \in 1..Len(calls[c].requests) : calls[c].requests[i].params.page = 1
            /\ (IsResolved(c) /\ Len(calls[c].outcome.value.results) > 0) =>
                   /\ "index" \in DOMAIN calls[c].outcome.value.results[1]
                   /\ calls[c].outcome.value.results[1].index = 1

\* C24: with results_per_page not a divisor of the remote page size, a page is never
\* misaligned without notice: a resolved fetch of virtual page v returns records that
\* begin at global rank (v - 1) * results_per_page + 1 (the id of a record of the
\* backing data is its rank).
C24_NoMisalignedPage ==
    \A c \in Calls :
        (~Divides /\ IsResolved(c) /\ VirtualPage(c) >= 1
           /\ Len(calls[c].outcome.value.results) > 0) =>
            calls[c].outcome.value.results[1].id =
                (VirtualPage(c) - 1) * results_per_page + 1

\* C25: a paginated fetch suspended at its request eventually completes, with a
\* resolved page or a rejection, once the Transport has answered or failed the
\* request; it does not stay suspended.
C25_FetchCompletes ==
    \A c \in Calls : (calls[c].pc = "await") ~> (calls[c].pc = "done")

C25_Witness ==
    /\ generation = "Resource"
    /\ IsResolved(1)
    /\ Len(calls[1].requests) = 1
    /\ results_per_page = 5
    /\ total = 10000

\* Resource.js (the older Resource): _mutateResultsResponse(data, options), with
\* _apiResultsPerPage = 20 and the page tested against results_per_page
MutateResultsResponse(data, options) ==
    LET inputPage == InputPage(options)
        requestPage == RequestPage(inputPage, remotePageSize, results_per_page)
        offsetPosition == OffsetPosition(inputPage, remotePageSize, results_per_page)
        indexed == AssignIndex(data.results, requestPage, remotePageSize)
    IN  IF inputPage < 1 \/ inputPage > results_per_page
        THEN Rejected(InvalidPageNumberError)
        ELSE Resolved(
               Spread(data,
                 [page          |-> inputPage,
                  total_pages   |-> MathCeil(data.total_results, results_per_page),
                  total_results |-> data.total_results,
                  results       |-> Splice(indexed, offsetPosition, results_per_page)]))

PaginatorNames == {"Endpoint", "Resource", "Resource.js"}

\* the requests a paginated fetch with these options sends, by paginator
PaginatorRequests(name, options) ==
    CASE name = "Endpoint" ->
             IF EndpointPageInvalid(InputPage(options))
             THEN <<>>
             ELSE <<AxiosRequest("GET",
                       WithPage(options, RequestPage(InputPage(options),
                                                     apiResultsPerPage,
                                                     results_per_page)))>>
      [] name = "Resource" -> <<AxiosRequest("GET", MutateOptions(options))>>
      [] OTHER ->
             <<AxiosRequest("GET",
                  WithPage(options, RequestPage(InputPage(options), remotePageSize,
                                                results_per_page)))>>

\* the outcome of that fetch when its request is answered
PaginatorOutcome(name, options) ==
    LET requests == PaginatorRequests(name, options)
        data == RemotePage(requests[1].params.page)
    IN  CASE name = "Endpoint" ->
                 IF requests = <<>>
                 THEN Rejected(EndpointPageError)
                 ELSE EndpointResult(options, data)
          [] name = "Resource" -> MutateResults(data, options)
          [] OTHER -> MutateResultsResponse(data, options)

\* both resolve to the same value, or both reject
SameResult(a, b) ==
    \/ a.state = "rejected" /\ b.state = "rejected"
    \/ a.state = "resolved" /\ b = a

\* C26: the generations of the paginator are equivalent: for the results_per_page,
\* options and remote data of any finished fetch, every paginator sends the request
\* this fetch sent and ends as this fetch ended (the same resolved page, or a
\* rejection).
C26_GenerationsEquivalent ==
    \A c \in Calls :
        (Finished(c) /\ "axios" \notin DOMAIN calls[c]) =>
            \A name \in PaginatorNames :
                /\ PaginatorRequests(name, calls[c].options) = calls[c].requests
                /\ SameResult(PaginatorOutcome(name, calls[c].options),
                              calls[c].outcome)

\* the part of a list the claim gives to page p: the records at the 1-based
\* positions (p - 1) * results_per_page + 1 .. min(p * results_per_page, length), each
\* with its position as index
ListPage(list, p) ==
    LET first == (p - 1) * results_per_page + 1
        last == Min(p * results_per_page, Len(list))
    IN  [i \in 1..(last - first + 1) |->
            [id |-> list[first + i - 1].id, index |-> first + i - 1]]

\* what the claim has _mutateList return for a list and the options of the fetch
PaginatedList(list, options) ==
    [results       |-> ListPage(list, InputPage(options)),
     page          |-> InputPage(options),
     total_pages   |-> MathCeil(Len(list), results_per_page),
     total_results |-> Len(list)]

\* the lists the finished list fetches handed to _mutateList, with the options and
\* with what _mutateList returned
MutatedLists ==
    UNION {{[list |-> lists[c].response.cast, options |-> lists[c].options,
             returned |-> lists[c].outcome.value.cast],
            [list |-> lists[c].response.crew, options |-> lists[c].options,
             returned |-> lists[c].outcome.value.crew]} :
           c \in {d \in Calls : /\ lists[d].pc = "done"
                                /\ lists[d].via = "_getList"
                                /\ lists[d].outcome.state = "resolved"}}

\* C27: for a non-empty list and a page p with 1 <= p <= ceil(length /
\* results_per_page), _mutateList returns the records of page p with their
\* positions as index, page = p, total_pages and total_results.
C27_MutateListPaginates ==
    \A m \in MutatedLists :
        (/\ Len(m.list) > 0
         /\ InputPage(m.options) >= 1
         /\ InputPage(m.options) <= MathCeil(Len(m.list), results_per_page)) =>
            m.returned = PaginatedList(m.list, m.options)

\* a request of Find.findByExternalId (the others are Search requests)
IsFindRequest(request) == "path" \in DOMAIN request

\* C28: _getIdFromMethod goes by strict precedence: a given id resolves with no
\* request; otherwise a given externalId is looked up through Find (and nothing
\* else); otherwise a given query is looked up through Search; with none of the
\* three the call rejects with 'Method required.' and no request.
C28_MethodPrecedence ==
    \A c \in Calls :
        lookups[c].pc # "idle" =>
            LET l == lookups[c]
                method == l.method
            IN  IF Has(method, "id")
                THEN /\ l.requests = <<>>
                     /\ l.outcome = Resolved(Movie(method.id))
                ELSE IF Has(method, "externalId")
                THEN \A i \in 1..Len(l.requests) : IsFindRequest(l.requests[i])
                ELSE IF Has(method, "query")
                THEN l.requests = <<SearchRequest(method)>>
                ELSE /\ l.requests = <<>>
                     /\ l.outcome = Rejected(MethodRequiredError)

\* the operation of slot c lacks a required argument
LacksArgument(c) ==
    LET op == updates[c].op
    IN  \/ op.name = "_request" /\ (~Truthy(op.method) \/ ~Truthy(op.path))
        \/ op.name = "getEndpoint" /\ PropertyKey(op.endpointName) \notin MediaEndpoints
        \/ /\ op.name = "updateEndpoint"
           /\ \/ ~Truthy(op.method)
              \/ PropertyKey(op.endpointName) \notin MediaEndpoints

RatingMethod(op) == IF op.name = "addRating" THEN "POST" ELSE "DELETE"

\* C30: the rating operations reach the Transport: addRating sends exactly one POST
\* and removeRating exactly one DELETE to the rating path of the movie or show, and
\* neither is rejected before a request is made.
C30_RatingReachesTransport ==
    \A c \in Calls :
        (updates[c].pc # "idle" /\ updates[c].op.name \in {"addRating", "removeRating"}) =>
            /\ Len(updates[c].requests) = 1
            /\ updates[c].requests[1].method = RatingMethod(updates[c].op)
            /\ updates[c].requests[1].path = CreatePath(updates[c].op.resource, "rating")

====
